---- MODULE Spec2Model ----
(***************************************************************************)
(* A model of the ONVIF PTZ controller of src/ptz_controller.py (menu      *)
(* shell run_cli) and src/ptz_control_with_keyboard.py (key shell          *)
(* run_keyboard).                                                          *)
(*                                                                         *)
(* Numbers.  Python floats are modelled as scaled integers: a requested    *)
(* axis value v and a velocity limit are counted in tenths (1.0 is 10,     *)
(* 0.5 is 5), and a velocity, the product of the two, in hundredths (0.7   *)
(* is 70, -0.3 is -30).  Floating-point rounding is not modelled.          *)
(*                                                                         *)
(* Python values.  None is the record None; a str s is Str(s).             *)
(*                                                                         *)
(* The camera, the onvif library and the operator are the environment:     *)
(* every request may be accepted or may raise, the operator may type any   *)
(* input of a small set, and may interrupt (Ctrl-C) a blocking wait.       *)
(***************************************************************************)
EXTENDS Integers, Sequences, FiniteSets, TLC

VARIABLES
    file,     \* which source file's program runs: "ptz_controller" or "ptz_control_with_keyboard"
    caller,   \* "shell": run_cli / run_keyboard drives the controller; "direct": a caller of PTZController's methods
    camera,   \* the camera: its media profiles, its configuration-options response, its motion, its presets
    self,     \* the PTZController object (NoController before __init__ has completed)
    status,   \* "new", "running", "finally", "exited" (normal end or sys.exit(0)), "raised" (uncaught exception)
    todo,     \* the statements the running handler has still to execute, first one first
    ret,      \* the outcome of the last controller method call, as its caller sees it
    trace     \* everything observable so far, in order: calls, requests sent, inputs read, sleeps, prints

vars == <<file, caller, camera, self, status, todo, ret, trace>>

-----------------------------------------------------------------------------
(* Bounds of the model.                                                    *)

\* inputs the operator types into a shell in one run
MaxInputs == 2
\* method calls a direct caller makes on one controller
MaxCalls == 2
\* set_preset and list_presets calls a caller that only saves and lists
\* presets makes on one controller
MaxPresetCalls == 3

-----------------------------------------------------------------------------
(* Python values.                                                          *)

None == [py |-> "None"]
Str(s) == [py |-> "str", s |-> s]

Files == {"ptz_controller", "ptz_control_with_keyboard"}

\* the default of max_pan_speed, max_tilt_speed and max_zoom_speed: 0.5
DefaultSpeed == 5

\* the velocity maxima the modelled camera reports (0.7, 0.6, 0.4) when its
\* configuration options hold them
Reported == [pan |-> 7, tilt |-> 6, zoom |-> 4]

\* move_speed of the shell: 0.5 in run_cli, 1.0 in run_keyboard
move_speed(f) == IF f = "ptz_controller" THEN 5 ELSE 10

-----------------------------------------------------------------------------
(* The camera's answer to GetConfigurationOptions, by shape.               *)
(*   query:  "ok" | "raises" (the request fails) | "none" (returns None)   *)
(*   spaces: "ok" | "missing" (no attribute Spaces) | "none"               *)
(*   pt, z:  PanTiltVelocitySpace / ZoomVelocitySpace:                     *)
(*           "ok" (a non-empty list) | "missing" | "empty"                 *)
(*   x, y, zx: XRange / YRange of PanTiltVelocitySpace[0] and XRange of    *)
(*           ZoomVelocitySpace[0]: "ok" (has a Max) | "missing" (no such   *)
(*           attribute) | "none" (the attribute is None: reading .Max      *)
(*           raises AttributeError)                                        *)

Opts(query, spaces, pt, x, y, z, zx) ==
    [query |-> query, spaces |-> spaces, pt |-> pt, x |-> x, y |-> y, z |-> z, zx |-> zx]

WellFormed == Opts("ok", "ok", "ok", "ok", "ok", "ok", "ok")

CfgResponses ==
    { WellFormed,
      [WellFormed EXCEPT !.query = "raises"],
      [WellFormed EXCEPT !.query = "none"],
      [WellFormed EXCEPT !.spaces = "missing"],
      [WellFormed EXCEPT !.spaces = "none"],
      [WellFormed EXCEPT !.pt = "missing"],
      [WellFormed EXCEPT !.pt = "empty"],
      [WellFormed EXCEPT !.z = "missing"],
      [WellFormed EXCEPT !.z = "empty"],
      [WellFormed EXCEPT !.pt = "missing", !.z = "missing"],
      [WellFormed EXCEPT !.x = "missing"],
      [WellFormed EXCEPT !.x = "none"],
      [WellFormed EXCEPT !.y = "missing"],
      [WellFormed EXCEPT !.y = "none"],
      [WellFormed EXCEPT !.zx = "missing"],
      [WellFormed EXCEPT !.zx = "none"] }

-----------------------------------------------------------------------------
(* Trace events.                                                           *)

\* a request sent to the camera through the onvif library; ok: accepted
\* (the library call returns resp) or not (it raises, and resp is None)
Request(name, req, ok, resp) ==
    [ev |-> "request", name |-> name, req |-> req, ok |-> ok, resp |-> IF ok THEN resp ELSE None]
\* a PTZController method was entered
Called(stmt) == [ev |-> "call", stmt |-> stmt]
\* the shell read a command (a menu choice, a key): at is "command"; or the
\* answer to a prompt for a preset token or name: at is "prompt"; value is
\* the text read, exc the exception raised instead (None when text was read)
Read(at, value, exc) == [ev |-> "input", at |-> at, value |-> value, exc |-> exc]
\* the shell printed a message
Printed(msg) == [ev |-> "print", msg |-> msg]
\* the shell slept for move_duration_sec; completed: the sleep ran to its end
Slept(completed) == [ev |-> "sleep", completed |-> completed]

IsRequest(e, name) == e.ev = "request" /\ e.name = name

\* the exception the onvif library raises when a request fails; the
\* controller's methods hold no try, so this very value reaches their caller
LibraryError == [py |-> "Exception", raised_by |-> "onvif"]
KeyboardInterrupt == [py |-> "KeyboardInterrupt", raised_by |-> "operator"]
EOFError == [py |-> "EOFError", raised_by |-> "input"]
NoProfilesError == [py |-> "RuntimeError", raised_by |-> "PTZController.__init__"]
AttributeError == [py |-> "AttributeError", raised_by |-> "PTZController.__init__"]

-----------------------------------------------------------------------------
(* PTZController.__init__                                                  *)

Limits(pan, tilt, zoom) == [pan |-> pan, tilt |-> tilt, zoom |-> zoom]

DefaultLimits == Limits(DefaultSpeed, DefaultSpeed, DefaultSpeed)

\* src/ptz_controller.py: the three limits start at 0.5 and are assigned one
\* by one inside one try; an AttributeError ends the try and keeps what was
\* assigned before it
discover_limits_cli(o) ==
    IF o.query = "none" \/ o.spaces # "ok"
    THEN DefaultLimits
    ELSE LET afterPanTilt ==
                 IF o.pt # "ok" THEN [l |-> DefaultLimits, raised |-> FALSE]
                 ELSE IF o.x # "ok" THEN [l |-> DefaultLimits, raised |-> TRUE]
                 ELSE IF o.y # "ok"
                      THEN [l |-> [DefaultLimits EXCEPT !.pan = Reported.pan], raised |-> TRUE]
                      ELSE [l |-> [DefaultLimits EXCEPT !.pan = Reported.pan,
                                                        !.tilt = Reported.tilt],
                            raised |-> FALSE]
         IN  IF afterPanTilt.raised \/ o.z # "ok" \/ o.zx # "ok"
             THEN afterPanTilt.l
             ELSE [afterPanTilt.l EXCEPT !.zoom = Reported.zoom]

\* src/ptz_control_with_keyboard.py: one condition over the whole response
\* guards the three assignments; the else branch and the except clause both
\* set all three limits to 0.5
discover_limits_keyboard(o) ==
    IF /\ o.query = "ok"
       /\ o.spaces = "ok"
       /\ o.pt = "ok" /\ o.x # "missing" /\ o.y # "missing"
       /\ o.z = "ok" /\ o.zx # "missing"
    THEN IF o.x = "ok" /\ o.y = "ok" /\ o.zx = "ok"
         THEN Limits(Reported.pan, Reported.tilt, Reported.zoom)
         ELSE DefaultLimits
    ELSE DefaultLimits

discover_limits(f, o) ==
    IF f = "ptz_controller" THEN discover_limits_cli(o) ELSE discover_limits_keyboard(o)

\* whether reading the configuration options makes __init__ raise: in
\* src/ptz_controller.py the query is made outside the try, in
\* src/ptz_control_with_keyboard.py inside it
init_query_raises(f, profile, o) ==
    /\ f = "ptz_controller"
    /\ (profile.PTZConfiguration = None \/ o.query = "raises")

\* whether __init__ sends GetConfigurationOptions at all: not when building
\* its argument, self.profile.PTZConfiguration.token, already raises
init_sends_query(profile) == profile.PTZConfiguration # None

NoController == [constructed |-> FALSE]

Controller(profile, limits) ==
    [ constructed        |-> TRUE,
      profile            |-> profile,
      request_continuous |-> [ProfileToken |-> profile.token, Velocity |-> None],
      request_stop       |-> [ProfileToken |-> profile.token, PanTilt |-> None, Zoom |-> None],
      request_gotopreset |-> [ProfileToken |-> profile.token, PresetToken |-> None],
      request_setpreset  |-> [ProfileToken |-> profile.token, PresetName |-> None],
      max_pan_speed      |-> limits.pan,
      max_tilt_speed     |-> limits.tilt,
      max_zoom_speed     |-> limits.zoom ]

\* the exception __init__ raises when reading the configuration options
\* fails outside a try
init_query_exception(profile) ==
    IF profile.PTZConfiguration # None THEN LibraryError ELSE AttributeError

Construct == [op |-> "__init__"]

\* a variant that does not test the profile list: with no profile it builds
\* a controller that has no profile token
PTZController_init_without_profile_check ==
    /\ status = "new"
    /\ UNCHANGED <<file, caller, camera, todo>>
    /\ LET profile == IF camera.profiles = <<>>
                      THEN [token |-> None, PTZConfiguration |-> [token |-> None]]
                      ELSE camera.profiles[1]
           o       == camera.cfg_opts
           query   == IF init_sends_query(profile)
                      THEN <<Request("GetConfigurationOptions",
                                     [ConfigurationToken |-> profile.PTZConfiguration.token],
                                     o.query # "raises", o)>>
                      ELSE <<>>
       IN  /\ trace' = trace \o <<Request("GetProfiles", None, TRUE, [profiles |-> camera.profiles])>>
                             \o query
           /\ IF init_query_raises(file, profile, o)
              THEN /\ self' = NoController
                   /\ ret' = [stmt |-> Construct, kind |-> "raised",
                               exc |-> init_query_exception(profile)]
                   /\ status' = "raised"
              ELSE /\ self' = Controller(profile, discover_limits(file, o))
                   /\ ret' = [stmt |-> Construct, kind |-> "returned", value |-> None]
                   /\ status' = "running"

PTZController_init ==
    /\ status = "new"
    /\ UNCHANGED <<file, caller, camera, todo>>
    /\ IF camera.profiles = <<>>
       THEN /\ trace' = trace \o <<Request("GetProfiles", None, TRUE, [profiles |-> camera.profiles])>>
            /\ self' = NoController
            /\ ret' = [stmt |-> Construct, kind |-> "raised", exc |-> NoProfilesError]
            /\ status' = "raised"
       ELSE LET profile == camera.profiles[1]
                o       == camera.cfg_opts
                query   == IF init_sends_query(profile)
                           THEN <<Request("GetConfigurationOptions",
                                          [ConfigurationToken |-> profile.PTZConfiguration.token],
                                          o.query # "raises", o)>>
                           ELSE <<>>
            IN  /\ trace' = trace \o <<Request("GetProfiles", None, TRUE, [profiles |-> camera.profiles])>>
                                  \o query
                /\ IF init_query_raises(file, profile, o)
                   THEN /\ self' = NoController
                        /\ ret' = [stmt |-> Construct, kind |-> "raised",
                                    exc |-> init_query_exception(profile)]
                        /\ status' = "raised"
                   ELSE /\ self' = Controller(profile, discover_limits(file, o))
                        /\ ret' = [stmt |-> Construct, kind |-> "returned", value |-> None]
                        /\ status' = "running"

-----------------------------------------------------------------------------
(* Statements: what a handler executes, one step each.                     *)

CallMove(pan, tilt, zoom) == [op |-> "continuous_move", pan |-> pan, tilt |-> tilt, zoom |-> zoom]
CallStop(pan_tilt, zoom) == [op |-> "stop", pan_tilt |-> pan_tilt, zoom |-> zoom]
CallGoToPreset(preset_token) == [op |-> "go_to_preset", preset_token |-> preset_token]
CallSetPreset(name) == [op |-> "set_preset", name |-> name]
CallListPresets == [op |-> "list_presets"]
CallNormalizedSpeed(v, max_speed) == [op |-> "_normalized_speed", v |-> v, max_speed |-> max_speed]
Sleep == [op |-> "sleep"]
Prompt(for) == [op |-> "input", for |-> for]
PrintPresets == [op |-> "print_presets"]
PrintToken == [op |-> "print_token"]
Break == [op |-> "break"]
SysExit == [op |-> "sys_exit"]
Return == [op |-> "return"]
Reraise == [op |-> "reraise"]

Executing(op) ==
    /\ status \in {"running", "finally"}
    /\ todo # <<>>
    /\ Head(todo).op = op

-----------------------------------------------------------------------------
(* Exceptions: where control goes when the running statement raises.       *)
(*   a direct caller catches the exception and looks at it;                *)
(*   run_cli has no handler around its commands (its try covers only the   *)
(*   menu's input()): the exception ends the program;                      *)
(*   run_keyboard's loop is inside try / except KeyboardInterrupt /        *)
(*   finally: controller.stop(): the finally clause runs, and an exception *)
(*   other than KeyboardInterrupt is raised again after it;                *)
(*   an exception raised by the finally clause, by the statement after     *)
(*   run_cli's loop or by run_cli's except clause ends the program.        *)

\* a variant of run_keyboard with no finally clause
unwind_without_finally(exc) ==
    IF caller = "direct"
    THEN [todo |-> <<>>, status |-> status]
    ELSE IF status = "finally" \/ file = "ptz_controller"
    THEN [todo |-> <<>>, status |-> "raised"]
    ELSE IF exc = KeyboardInterrupt
    THEN [todo |-> <<Return>>, status |-> "finally"]
    ELSE [todo |-> <<Reraise>>, status |-> "finally"]

unwind(exc) ==
    IF caller = "direct"
    THEN [todo |-> <<>>, status |-> status]
    ELSE IF status = "finally" \/ file = "ptz_controller"
    THEN [todo |-> <<>>, status |-> "raised"]
    ELSE IF exc = KeyboardInterrupt
    THEN [todo |-> <<CallStop(TRUE, TRUE), Return>>, status |-> "finally"]
    ELSE [todo |-> <<CallStop(TRUE, TRUE), Reraise>>, status |-> "finally"]

\* the running controller method returns value to its caller
Returns(stmt, value) ==
    /\ ret' = [stmt |-> stmt, kind |-> "returned", value |-> value]
    /\ todo' = Tail(todo)
    /\ status' = status

\* the running controller method raises exc to its caller
Raises(stmt, exc) ==
    /\ ret' = [stmt |-> stmt, kind |-> "raised", exc |-> exc]
    /\ todo' = unwind(exc).todo
    /\ status' = unwind(exc).status

-----------------------------------------------------------------------------
(* PTZController's methods.                                                *)

Min(a, b) == IF a < b THEN a ELSE b
Max(a, b) == IF a > b THEN a ELSE b

\* a variant that forgets the lower clamp: v = min(1.0, v)
normalized_speed_no_lower_clamp(v, max_speed) == Min(10, v) * max_speed

\* v = max(-1.0, min(1.0, v)); return v * max_speed
_normalized_speed(v, max_speed) == Max(-10, Min(10, v)) * max_speed

\* a variant that scales tilt by the pan limit
velocity_tilt_by_pan_limit(pan, tilt, zoom) ==
    [ PanTilt |-> [ x |-> _normalized_speed(pan, self.max_pan_speed),
                    y |-> _normalized_speed(tilt, self.max_pan_speed) ],
      Zoom    |-> [ x |-> _normalized_speed(zoom, self.max_zoom_speed) ] ]

\* the Velocity continuous_move stores in request_continuous
velocity(pan, tilt, zoom) ==
    [ PanTilt |-> [ x |-> _normalized_speed(pan, self.max_pan_speed),
                    y |-> _normalized_speed(tilt, self.max_tilt_speed) ],
      Zoom    |-> [ x |-> _normalized_speed(zoom, self.max_zoom_speed) ] ]

normalized_speed_call ==
    /\ Executing("_normalized_speed")
    /\ LET s == Head(todo)
       IN  /\ trace' = Append(trace, Called(s))
           /\ Returns(s, _normalized_speed(s.v, s.max_speed))
    /\ UNCHANGED <<file, caller, camera, self>>

\* a variant that keeps the velocity it computed as the new pan limit
continuous_move_overwriting_limit ==
    /\ Executing("continuous_move")
    /\ LET s   == Head(todo)
           req == [self.request_continuous EXCEPT !.Velocity = velocity(s.pan, s.tilt, s.zoom)]
       IN  /\ self' = [self EXCEPT !.request_continuous = req,
                                   !.max_pan_speed = req.Velocity.PanTilt.x]
           /\ \E ok \in BOOLEAN :
                /\ trace' = trace \o <<Called(s), Request("ContinuousMove", req, ok, None)>>
                /\ camera' = IF ok THEN [camera EXCEPT !.velocity = req.Velocity] ELSE camera
                /\ IF ok THEN Returns(s, None) ELSE Raises(s, LibraryError)
    /\ UNCHANGED <<file, caller>>

continuous_move ==
    /\ Executing("continuous_move")
    /\ LET s   == Head(todo)
           req == [self.request_continuous EXCEPT !.Velocity = velocity(s.pan, s.tilt, s.zoom)]
       IN  /\ self' = [self EXCEPT !.request_continuous = req]
           /\ \E ok \in BOOLEAN :
                /\ trace' = trace \o <<Called(s), Request("ContinuousMove", req, ok, None)>>
                /\ camera' = IF ok THEN [camera EXCEPT !.velocity = req.Velocity] ELSE camera
                /\ IF ok THEN Returns(s, None) ELSE Raises(s, LibraryError)
    /\ UNCHANGED <<file, caller>>

\* the camera's motion after it accepted a Stop request
stopped(v, req) ==
    [ PanTilt |-> IF req.PanTilt THEN [x |-> 0, y |-> 0] ELSE v.PanTilt,
      Zoom    |-> IF req.Zoom THEN [x |-> 0] ELSE v.Zoom ]

\* a variant guarded by the camera's motion: it sends Stop only while the
\* camera moves
stop_guarded_by_motion ==
    /\ Executing("stop")
    /\ LET s   == Head(todo)
           req == [self.request_stop EXCEPT !.PanTilt = s.pan_tilt, !.Zoom = s.zoom]
       IN  IF camera.velocity = [PanTilt |-> [x |-> 0, y |-> 0], Zoom |-> [x |-> 0]]
           THEN /\ trace' = Append(trace, Called(s))
                /\ Returns(s, None)
                /\ UNCHANGED <<self, camera>>
           ELSE /\ self' = [self EXCEPT !.request_stop = req]
                /\ \E ok \in BOOLEAN :
                     /\ trace' = trace \o <<Called(s), Request("Stop", req, ok, None)>>
                     /\ camera' = IF ok THEN [camera EXCEPT !.velocity = stopped(@, req)] ELSE camera
                     /\ IF ok THEN Returns(s, None) ELSE Raises(s, LibraryError)
    /\ UNCHANGED <<file, caller>>

\* a variant that sets the flags of the shared Stop request on its first
\* call only and sends them again on every later call
stop_keeping_first_flags ==
    /\ Executing("stop")
    /\ LET s       == Head(todo)
           earlier == {i \in DOMAIN trace : IsRequest(trace[i], "Stop")}
           req     == IF earlier = {}
                      THEN [self.request_stop EXCEPT !.PanTilt = s.pan_tilt, !.Zoom = s.zoom]
                      ELSE self.request_stop
       IN  /\ self' = [self EXCEPT !.request_stop = req]
           /\ \E ok \in BOOLEAN :
                /\ trace' = trace \o <<Called(s), Request("Stop", req, ok, None)>>
                /\ camera' = IF ok THEN [camera EXCEPT !.velocity = stopped(@, req)] ELSE camera
                /\ IF ok THEN Returns(s, None) ELSE Raises(s, LibraryError)
    /\ UNCHANGED <<file, caller>>

stop ==
    /\ Executing("stop")
    /\ LET s   == Head(todo)
           req == [self.request_stop EXCEPT !.PanTilt = s.pan_tilt, !.Zoom = s.zoom]
       IN  /\ self' = [self EXCEPT !.request_stop = req]
           /\ \E ok \in BOOLEAN :
                /\ trace' = trace \o <<Called(s), Request("Stop", req, ok, None)>>
                /\ camera' = IF ok THEN [camera EXCEPT !.velocity = stopped(@, req)] ELSE camera
                /\ IF ok THEN Returns(s, None) ELSE Raises(s, LibraryError)
    /\ UNCHANGED <<file, caller>>

go_to_preset ==
    /\ Executing("go_to_preset")
    /\ LET s   == Head(todo)
           req == [self.request_gotopreset EXCEPT !.PresetToken = s.preset_token]
       IN  /\ self' = [self EXCEPT !.request_gotopreset = req]
           /\ \E ok \in BOOLEAN :
                /\ trace' = trace \o <<Called(s), Request("GotoPreset", req, ok, None)>>
                /\ IF ok THEN Returns(s, None) ELSE Raises(s, LibraryError)
    /\ UNCHANGED <<file, caller, camera>>

\* the shapes of the camera's answer to an accepted SetPreset: None, an
\* object with no PresetToken field, a PresetToken field that is None, a
\* PresetToken field holding the new preset's token
SetPresetResponses == {"none", "no_field", "field_none", "token"}

\* the token the camera gives its n-th preset (the camera stores a preset
\* whenever it accepts SetPreset, whatever its response looks like)
token_of(n) == <<ToString(n)>>

\* what set_preset returns for a response, and whether it printed its warning
set_preset_result(f, shape, token) ==
    IF shape \in {"none", "no_field"}
    THEN [value |-> Str(<<>>), warned |-> f = "ptz_controller"]
    ELSE [value |-> IF shape = "field_none" THEN None ELSE Str(token), warned |-> FALSE]

set_preset ==
    /\ Executing("set_preset")
    /\ LET s   == Head(todo)
           req == [self.request_setpreset EXCEPT !.PresetName = s.name]
       IN  /\ self' = [self EXCEPT !.request_setpreset = req]
           /\ \E ok \in BOOLEAN, shape \in SetPresetResponses :
                LET token == token_of(Len(camera.presets) + 1)
                    r     == set_preset_result(file, shape, token)
                IN  /\ ok \/ shape = "none"
                    /\ trace' = trace \o <<Called(s), Request("SetPreset", req, ok, [shape |-> shape])>>
                                      \o (IF ok /\ r.warned
                                          THEN <<Printed("Warning: No PresetToken returned from camera.")>>
                                          ELSE <<>>)
                    /\ camera' = IF ok
                                 THEN [camera EXCEPT !.presets = Append(@, [token |-> token, Name |-> s.name])]
                                 ELSE camera
                    /\ IF ok THEN Returns(s, r.value) ELSE Raises(s, LibraryError)
    /\ UNCHANGED <<file, caller>>

\* a variant that treats an empty answer as a failure
list_presets_raising_on_empty ==
    /\ Executing("list_presets")
    /\ LET s == Head(todo)
       IN  \E ok \in BOOLEAN :
             /\ trace' = trace \o <<Called(s),
                                    Request("GetPresets", [ProfileToken |-> self.profile.token], ok,
                                            [presets |-> camera.presets])>>
             /\ IF ok /\ camera.presets # <<>>
                THEN Returns(s, camera.presets)
                ELSE Raises(s, LibraryError)
    /\ UNCHANGED <<file, caller, camera, self>>

\* a variant that remembers the first answer it got and returns it to every
\* later call without asking the camera
list_presets_cached ==
    /\ Executing("list_presets")
    /\ LET s       == Head(todo)
           earlier == {i \in DOMAIN trace : IsRequest(trace[i], "GetPresets") /\ trace[i].ok}
       IN  IF earlier # {}
           THEN /\ trace' = Append(trace, Called(s))
                /\ Returns(s, trace[CHOOSE i \in earlier : TRUE].resp.presets)
           ELSE \E ok \in BOOLEAN :
                  /\ trace' = trace \o <<Called(s),
                                         Request("GetPresets", [ProfileToken |-> self.profile.token], ok,
                                                 [presets |-> camera.presets])>>
                  /\ IF ok THEN Returns(s, camera.presets) ELSE Raises(s, LibraryError)
    /\ UNCHANGED <<file, caller, camera, self>>

list_presets ==
    /\ Executing("list_presets")
    /\ LET s == Head(todo)
       IN  \E ok \in BOOLEAN :
             /\ trace' = trace \o <<Called(s),
                                    Request("GetPresets", [ProfileToken |-> self.profile.token], ok,
                                            [presets |-> camera.presets])>>
             /\ IF ok THEN Returns(s, camera.presets) ELSE Raises(s, LibraryError)
    /\ UNCHANGED <<file, caller, camera, self>>

-----------------------------------------------------------------------------
(* Text the operator types: a sequence of characters.                      *)

RECURSIVE lstrip(_)
lstrip(s) == IF s # <<>> /\ Head(s) = " " THEN lstrip(Tail(s)) ELSE s

RECURSIVE rstrip(_)
rstrip(s) == IF s # <<>> /\ s[Len(s)] = " " THEN rstrip(SubSeq(s, 1, Len(s) - 1)) ELSE s

\* str.strip()
strip(s) == rstrip(lstrip(s))

-----------------------------------------------------------------------------
(* run_cli: the menu shell of src/ptz_controller.py.                       *)

\* what the operator may type at the menu
MenuLines ==
    { <<"0">>, <<"1">>, <<"2">>, <<"3">>, <<"4">>, <<"5">>, <<"6">>, <<"7">>, <<"8">>, <<"9">>,
      <<"1", "0">>, <<" ", "7">>, <<"x">>, <<>> }

\* a variant whose pan-left branch does not stop after its wait
run_cli_branch_without_stop(choice) ==
    LET speed == move_speed("ptz_controller")
    IN  CASE choice = <<"1">> -> <<CallMove(-speed, 0, 0), Sleep>>
          [] choice = <<"2">> -> <<CallMove(speed, 0, 0), Sleep, CallStop(TRUE, TRUE)>>
          [] OTHER -> <<>>

\* the statements of the branch run_cli takes for a (stripped) choice; an
\* unrecognised choice prints "Invalid choice. Try again." and does nothing
run_cli_branch(choice) ==
    LET speed == move_speed("ptz_controller")
    IN  CASE choice = <<"0">> -> <<CallStop(TRUE, TRUE), Break>>
          [] choice = <<"1">> -> <<CallMove(-speed, 0, 0), Sleep, CallStop(TRUE, TRUE)>>
          [] choice = <<"2">> -> <<CallMove(speed, 0, 0), Sleep, CallStop(TRUE, TRUE)>>
          [] choice = <<"3">> -> <<CallMove(0, speed, 0), Sleep, CallStop(TRUE, TRUE)>>
          [] choice = <<"4">> -> <<CallMove(0, -speed, 0), Sleep, CallStop(TRUE, TRUE)>>
          [] choice = <<"5">> -> <<CallMove(0, 0, speed), Sleep, CallStop(FALSE, TRUE)>>
          [] choice = <<"6">> -> <<CallMove(0, 0, -speed), Sleep, CallStop(FALSE, TRUE)>>
          [] choice = <<"7">> -> <<CallStop(TRUE, TRUE)>>
          [] choice = <<"8">> -> <<CallListPresets, PrintPresets>>
          [] choice = <<"9">> -> <<Prompt("go_to_preset")>>
          [] choice = <<"1", "0">> -> <<Prompt("set_preset")>>
          [] OTHER -> <<>>

run_cli_recognised(choice) ==
    choice \in { <<"0">>, <<"1">>, <<"2">>, <<"3">>, <<"4">>, <<"5">>, <<"6">>, <<"7">>, <<"8">>,
                 <<"9">>, <<"1", "0">> }

\* the commands read so far
Commands == {i \in DOMAIN trace : trace[i].ev = "input" /\ trace[i].at = "command"}

AtCommandInput ==
    /\ caller = "shell"
    /\ status = "running"
    /\ todo = <<>>
    /\ Cardinality(Commands) < MaxInputs

\* choice = input(menu).strip() and the dispatch on it; EOFError and
\* KeyboardInterrupt at the menu are caught: controller.stop(); sys.exit(0)
run_cli_input ==
    /\ file = "ptz_controller"
    /\ AtCommandInput
    /\ \/ \E line \in MenuLines :
            LET choice == strip(line)
            IN  /\ trace' = trace \o <<Read("command", line, None)>>
                              \o (IF run_cli_recognised(choice) THEN <<>>
                                  ELSE <<Printed("Invalid choice. Try again.")>>)
                /\ todo' = run_cli_branch(choice)
                /\ status' = status
       \/ \E exc \in {EOFError, KeyboardInterrupt} :
            /\ trace' = trace \o <<Read("command", <<>>, exc), Printed("Exiting...")>>
            /\ todo' = <<CallStop(TRUE, TRUE), SysExit>>
            /\ status' = "finally"
    /\ UNCHANGED <<file, caller, camera, self, ret>>

-----------------------------------------------------------------------------
(* run_keyboard: the key shell of src/ptz_control_with_keyboard.py.        *)

\* the bytes msvcrt.getch() may return: "E0" is b"\xe0", "00" is b"\x00",
\* "ESC" is b"\x1b", the others are the ASCII characters themselves
KeyBytes == {"E0", "00", "ESC", " ", "w", "W", "s", "a", "A", "d", "q", "e", "E", "p", "g", "o", "x"}

\* the second byte of an extended key: the arrows (H up, P down, K left,
\* M right) and Home (G)
ExtendedBytes == {"H", "P", "K", "M", "G"}

\* ch.decode(errors="ignore").lower()
decode_lower(ch) ==
    CASE ch = "W" -> "w"
      [] ch = "A" -> "a"
      [] ch = "E" -> "e"
      [] OTHER -> ch

\* a variant that binds the Home key to a move to preset 1
run_keyboard_extended_home_bound(ch2) ==
    LET speed == move_speed("ptz_control_with_keyboard")
    IN  CASE ch2 = "H" -> <<CallMove(0, speed, 0), Sleep, CallStop(TRUE, TRUE)>>
          [] ch2 = "P" -> <<CallMove(0, -speed, 0), Sleep, CallStop(TRUE, TRUE)>>
          [] ch2 = "K" -> <<CallMove(-speed, 0, 0), Sleep, CallStop(TRUE, TRUE)>>
          [] ch2 = "M" -> <<CallMove(speed, 0, 0), Sleep, CallStop(TRUE, TRUE)>>
          [] ch2 = "G" -> <<CallGoToPreset(<<"1">>)>>
          [] OTHER -> <<>>

\* the statements of the branch run_keyboard takes for an extended key
run_keyboard_extended(ch2) ==
    LET speed == move_speed("ptz_control_with_keyboard")
    IN  CASE ch2 = "H" -> <<CallMove(0, speed, 0), Sleep, CallStop(TRUE, TRUE)>>
          [] ch2 = "P" -> <<CallMove(0, -speed, 0), Sleep, CallStop(TRUE, TRUE)>>
          [] ch2 = "K" -> <<CallMove(-speed, 0, 0), Sleep, CallStop(TRUE, TRUE)>>
          [] ch2 = "M" -> <<CallMove(speed, 0, 0), Sleep, CallStop(TRUE, TRUE)>>
          [] OTHER -> <<>>

\* a variant whose zoom-in branch ends with stop(pan_tilt=True, zoom=False)
run_keyboard_branch_zoom_stops_pan_tilt(ch) ==
    LET speed == move_speed("ptz_control_with_keyboard")
        key   == decode_lower(ch)
    IN  CASE ch = "ESC" -> <<CallStop(TRUE, TRUE), Break>>
          [] key = "w" -> <<CallMove(0, speed, 0), Sleep, CallStop(TRUE, TRUE)>>
          [] key = "s" -> <<CallMove(0, -speed, 0), Sleep, CallStop(TRUE, TRUE)>>
          [] key = "a" -> <<CallMove(-speed, 0, 0), Sleep, CallStop(TRUE, TRUE)>>
          [] key = "d" -> <<CallMove(speed, 0, 0), Sleep, CallStop(TRUE, TRUE)>>
          [] key = "q" -> <<CallMove(0, 0, speed), Sleep, CallStop(TRUE, FALSE)>>
          [] key = "e" -> <<CallMove(0, 0, -speed), Sleep, CallStop(FALSE, TRUE)>>
          [] ch = " " -> <<CallStop(TRUE, TRUE)>>
          [] key = "p" -> <<CallListPresets, PrintPresets>>
          [] key = "g" -> <<CallStop(TRUE, TRUE), Prompt("go_to_preset")>>
          [] key = "o" -> <<CallStop(TRUE, TRUE), Prompt("set_preset")>>
          [] OTHER -> <<>>

\* the statements of the branch run_keyboard takes for a regular key
run_keyboard_branch(ch) ==
    LET speed == move_speed("ptz_control_with_keyboard")
        key   == decode_lower(ch)
    IN  CASE ch = "ESC" -> <<CallStop(TRUE, TRUE), Break>>
          [] key = "w" -> <<CallMove(0, speed, 0), Sleep, CallStop(TRUE, TRUE)>>
          [] key = "s" -> <<CallMove(0, -speed, 0), Sleep, CallStop(TRUE, TRUE)>>
          [] key = "a" -> <<CallMove(-speed, 0, 0), Sleep, CallStop(TRUE, TRUE)>>
          [] key = "d" -> <<CallMove(speed, 0, 0), Sleep, CallStop(TRUE, TRUE)>>
          [] key = "q" -> <<CallMove(0, 0, speed), Sleep, CallStop(FALSE, TRUE)>>
          [] key = "e" -> <<CallMove(0, 0, -speed), Sleep, CallStop(FALSE, TRUE)>>
          [] ch = " " -> <<CallStop(TRUE, TRUE)>>
          [] key = "p" -> <<CallListPresets, PrintPresets>>
          [] key = "g" -> <<CallStop(TRUE, TRUE), Prompt("go_to_preset")>>
          [] key = "o" -> <<CallStop(TRUE, TRUE), Prompt("set_preset")>>
          [] OTHER -> <<>>

\* one round of the loop in which msvcrt.kbhit() is true: ch = getch(), for
\* b"\xe0" also ch2 = getch(), and the dispatch; or a KeyboardInterrupt
\* while the loop polls
run_keyboard_input ==
    /\ file = "ptz_control_with_keyboard"
    /\ AtCommandInput
    /\ \/ \E ch \in KeyBytes \ {"E0"} :
            /\ trace' = trace \o <<Read("command", <<ch>>, None)>>
            /\ todo' = run_keyboard_branch(ch)
            /\ status' = status
       \/ \E ch2 \in ExtendedBytes :
            /\ trace' = trace \o <<Read("command", <<"E0", ch2>>, None)>>
            /\ todo' = run_keyboard_extended(ch2)
            /\ status' = status
       \/ /\ trace' = trace \o <<Read("command", <<>>, KeyboardInterrupt)>>
          /\ todo' = unwind(KeyboardInterrupt).todo
          /\ status' = unwind(KeyboardInterrupt).status
    /\ UNCHANGED <<file, caller, camera, self, ret>>

-----------------------------------------------------------------------------
(* Steps of the shells other than controller calls.                        *)

\* time.sleep(move_duration_sec): it runs to its end, or the operator
\* interrupts it (KeyboardInterrupt)
sleep ==
    /\ Executing("sleep")
    /\ \/ /\ trace' = Append(trace, Slept(TRUE))
          /\ todo' = Tail(todo)
          /\ status' = status
       \/ /\ trace' = Append(trace, Slept(FALSE))
          /\ todo' = unwind(KeyboardInterrupt).todo
          /\ status' = unwind(KeyboardInterrupt).status
    /\ UNCHANGED <<file, caller, camera, self, ret>>

\* what the operator may type at a prompt for a preset token or name
PromptLines == { <<>>, <<" ">>, <<"1">>, <<" ", "1", " ">>, <<"9">> }

\* the statements that follow a prompt: the go-to-preset command calls
\* go_to_preset only for a non-empty token, the save command calls
\* set_preset with any name
\* a variant whose go-to-preset command does not test the token
after_prompt_any_token(for, text) ==
    IF for = "go_to_preset"
    THEN <<CallGoToPreset(text)>>
    ELSE <<CallSetPreset(text), PrintToken>>

after_prompt(for, text) ==
    IF for = "go_to_preset"
    THEN IF text # <<>> THEN <<CallGoToPreset(text)>> ELSE <<>>
    ELSE <<CallSetPreset(text), PrintToken>>

\* token = input(...).strip() / name = input(...).strip()
input ==
    /\ Executing("input")
    /\ LET s == Head(todo)
       IN  \/ \E line \in PromptLines :
                LET text == strip(line)
                IN  /\ trace' = trace \o <<Read("prompt", line, None)>>
                                  \o (IF s.for = "go_to_preset" /\ text = <<>>
                                      THEN <<Printed(IF file = "ptz_controller"
                                                     THEN "Preset token cannot be empty."
                                                     ELSE "No token entered.")>>
                                      ELSE <<>>)
                    /\ todo' = after_prompt(s.for, text) \o Tail(todo)
                    /\ status' = status
           \/ \E exc \in {EOFError, KeyboardInterrupt} :
                /\ trace' = trace \o <<Read("prompt", <<>>, exc)>>
                /\ todo' = unwind(exc).todo
                /\ status' = unwind(exc).status
    /\ UNCHANGED <<file, caller, camera, self, ret>>

\* the shell prints what list_presets or set_preset returned
print ==
    /\ \/ /\ Executing("print_presets")
          /\ trace' = Append(trace, IF ret.value = <<>>
                                    THEN Printed("No presets found.")
                                    ELSE [ev |-> "print", msg |-> "Presets:", presets |-> ret.value])
       \/ /\ Executing("print_token")
          /\ trace' = Append(trace, [ev |-> "print", msg |-> "Preset saved. Token:", token |-> ret.value])
    /\ todo' = Tail(todo)
    /\ UNCHANGED <<file, caller, camera, self, status, ret>>

\* break leaves the loop: run_cli goes on to its last statement,
\* controller.stop(), run_keyboard to its finally clause, controller.stop();
\* sys.exit(0) and the end of the function end the program; an exception
\* raised again after the finally clause ends it with that exception
leave ==
    /\ \/ /\ Executing("break")
          /\ todo' = <<CallStop(TRUE, TRUE), Return>>
          /\ status' = "finally"
       \/ /\ Executing("sys_exit") \/ Executing("return")
          /\ todo' = <<>>
          /\ status' = "exited"
       \/ /\ Executing("reraise")
          /\ todo' = <<>>
          /\ status' = "raised"
    /\ UNCHANGED <<file, caller, camera, self, ret, trace>>

-----------------------------------------------------------------------------
(* A direct caller of the controller's methods.                            *)

\* requested axis values: inside [-1, 1], on its ends and outside it
Values == {-50, -20, -10, -5, 0, 3, 10, 20}

\* argument triples of continuous_move: (1.0, -0.5, 0.0) is the scenario of
\* the specification's section 8
MoveArguments == { <<10, -5, 0>>, <<20, -50, 3>>, <<-5, 0, -20>>, <<0, 10, 10>> }

Calls ==
    {CallMove(m[1], m[2], m[3]) : m \in MoveArguments}
      \cup {CallStop(pt, z) : pt \in BOOLEAN, z \in BOOLEAN}
      \cup {CallGoToPreset(t) : t \in {<<"1">>, <<"9">>}}
      \cup {CallSetPreset(n) : n \in {<<>>, <<"a">>}}
      \cup {CallListPresets}
      \cup {CallNormalizedSpeed(v, l) : v \in Values, l \in {DefaultSpeed, Reported.pan}}

\* the method calls made so far
MethodCalls == {i \in DOMAIN trace : trace[i].ev = "call"}

call ==
    /\ caller = "direct"
    /\ status = "running"
    /\ todo = <<>>
    /\ Cardinality(MethodCalls) < MaxCalls
    /\ \E c \in Calls : todo' = <<c>>
    /\ UNCHANGED <<file, caller, camera, self, status, ret, trace>>

-----------------------------------------------------------------------------
(* The specifications.                                                     *)

Still == [PanTilt |-> [x |-> 0, y |-> 0], Zoom |-> [x |-> 0]]

\* a media profile, with its PTZ configuration or with none
Profile(has_ptz_configuration) ==
    [ token |-> "profile_1",
      PTZConfiguration |-> IF has_ptz_configuration THEN [token |-> "ptz_configuration_1"] ELSE None ]

Camera(profiles, cfg_opts) ==
    [profiles |-> profiles, cfg_opts |-> cfg_opts, velocity |-> Still, presets |-> <<>>]

\* the cameras a run may meet: one with a media profile and any of the
\* configuration-options responses, one whose profile has no PTZ
\* configuration, one with no media profile
Cameras ==
    {Camera(<<Profile(TRUE)>>, o) : o \in CfgResponses}
      \cup {Camera(<<Profile(FALSE)>>, WellFormed), Camera(<<>>, WellFormed)}

\* the cameras a run of a shell is followed on
ShellCameras ==
    {Camera(<<Profile(TRUE)>>, o) :
        o \in {WellFormed, [WellFormed EXCEPT !.query = "raises"], [WellFormed EXCEPT !.z = "missing"]}}
      \cup {Camera(<<>>, WellFormed)}

InitWith(c, cameras) ==
    /\ file \in Files
    /\ caller = c
    /\ camera \in cameras
    /\ self = NoController
    /\ status = "new"
    /\ todo = <<>>
    /\ ret = [kind |-> "none"]
    /\ trace = <<>>

\* a run of run_cli or run_keyboard
Init == InitWith("shell", ShellCameras)

Next ==
    \/ PTZController_init
    \/ run_cli_input
    \/ run_keyboard_input
    \/ continuous_move
    \/ sleep
    \/ stop
    \/ list_presets
    \/ input
    \/ go_to_preset
    \/ set_preset
    \/ print
    \/ leave

Spec == Init /\ [][Next]_vars

\* a caller that constructs a PTZController and calls its methods
InitController == InitWith("direct", Cameras)

NextController ==
    \/ PTZController_init
    \/ call
    \/ normalized_speed_call
    \/ continuous_move
    \/ stop
    \/ go_to_preset
    \/ set_preset
    \/ list_presets

SpecController == InitController /\ [][NextController]_vars

\* a caller that constructs a PTZController and then only saves and lists
\* presets, in any order
PresetCalls == {CallSetPreset(n) : n \in {<<>>, <<"a">>}} \cup {CallListPresets}

call_presets ==
    /\ caller = "direct"
    /\ status = "running"
    /\ todo = <<>>
    /\ Cardinality(MethodCalls) < MaxPresetCalls
    /\ \E c \in PresetCalls : todo' = <<c>>
    /\ UNCHANGED <<file, caller, camera, self, status, ret, trace>>

InitPresets == InitWith("direct", {Camera(<<Profile(TRUE)>>, WellFormed)})

NextPresets ==
    \/ PTZController_init
    \/ call_presets
    \/ set_preset
    \/ list_presets

SpecPresets == InitPresets /\ [][NextPresets]_vars

-----------------------------------------------------------------------------
(* Reading the trace.                                                      *)

Sent(i, name) == IsRequest(trace[i], name)

IsCommand(i) == trace[i].ev = "input" /\ trace[i].at = "command"

\* the shell is at rest: it waits for a command, or the program has ended
Idle == status = "running" /\ todo = <<>>
Ended == status \in {"exited", "raised"}
Quiescent == status # "new" /\ (Idle \/ Ended)

\* the events after event i of the command that produced it: up to the next
\* command read, or to the end of the trace
RestOfCommand(i) ==
    {j \in (i + 1)..Len(trace) : \A k \in (i + 1)..j : ~IsCommand(k)}

StopsIn(S) == {j \in S : Sent(j, "Stop")}

\* the requests a shell command makes through a controller method
CommandRequests == {"ContinuousMove", "Stop", "GotoPreset", "SetPreset", "GetPresets"}

FailedRequests ==
    {i \in DOMAIN trace :
        trace[i].ev = "request" /\ trace[i].name \in CommandRequests /\ ~trace[i].ok}

-----------------------------------------------------------------------------
(* C1: burst stop on every exit path.                                      *)

\* C1: when a shell is at rest, every burst whose wait ran to its end was
\* followed by a Stop request, exactly one if the camera accepted it, and
\* every ContinuousMove request the camera refused was followed by a Stop
\* request all the same.
C1_StopOnEveryBurstExit ==
    Quiescent =>
        \A i \in DOMAIN trace :
            Sent(i, "ContinuousMove") =>
                LET stops == StopsIn(RestOfCommand(i))
                    waited == \E j \in RestOfCommand(i) :
                                  trace[j].ev = "sleep" /\ trace[j].completed
                IN  /\ ~trace[i].ok => stops # {}
                    /\ (trace[i].ok /\ waited) =>
                          /\ stops # {}
                          /\ (\A j \in stops : trace[j].ok) => Cardinality(stops) = 1

-----------------------------------------------------------------------------
(* C2: an accepted move is stopped however the wait ends.                  *)

\* C2: when a shell is at rest, every ContinuousMove request the camera
\* accepted was followed, before the next command was read or the program
\* ended, by a Stop request; and unless a Stop request failed, the camera is
\* not moving.
C2_AcceptedMoveIsStopped ==
    Quiescent =>
        /\ \A i \in DOMAIN trace :
              (Sent(i, "ContinuousMove") /\ trace[i].ok) => StopsIn(RestOfCommand(i)) # {}
        /\ (\A i \in DOMAIN trace : Sent(i, "Stop") => trace[i].ok) => camera.velocity = Still

-----------------------------------------------------------------------------
(* C3: a failed camera call does not end the shell.                        *)

\* C3: after exactly one failed request of a shell command, the program has
\* not ended with an exception, and once the shell is at rest it is waiting
\* for its next command and has printed a report after the failure.
C3_FailedCallReturnsToIdle ==
    Cardinality(FailedRequests) = 1 =>
        /\ status # "raised"
        /\ Quiescent =>
              /\ Idle
              /\ \E i \in FailedRequests :
                    \E j \in RestOfCommand(i) : trace[j].ev = "print"

-----------------------------------------------------------------------------
(* C4: construction survives a failed limit discovery.                     *)

\* the response holds no velocity range at all, or there is no response
HasNoRanges(o) ==
    \/ o.query \in {"raises", "none"}
    \/ o.spaces # "ok"
    \/ (o.pt # "ok" /\ o.z # "ok")

\* C4: on a camera whose profile has a PTZ configuration, __init__ completes
\* whatever GetConfigurationOptions does, and when the query raises, returns
\* None or returns a response with no velocity range, the three limits are
\* 0.5.
C4_ConstructionSurvivesDiscovery ==
    (status # "new" /\ camera.profiles # <<>> /\ camera.profiles[1].PTZConfiguration # None) =>
        /\ self.constructed
        /\ HasNoRanges(camera.cfg_opts) =>
              Limits(self.max_pan_speed, self.max_tilt_speed, self.max_zoom_speed) = DefaultLimits

-----------------------------------------------------------------------------
(* C5: the limits are all reported or all default.                         *)

\* the response holds both velocity ranges, each with readable maxima
HasAllRanges(o) ==
    /\ o.query = "ok" /\ o.spaces = "ok"
    /\ o.pt = "ok" /\ o.x = "ok" /\ o.y = "ok"
    /\ o.z = "ok" /\ o.zx = "ok"

\* C5: a constructed controller's three limits are the camera's reported
\* maxima when the response holds both ranges with readable maxima, and are
\* all 0.5 otherwise.
C5_LimitsAllOrNothing ==
    self.constructed =>
        Limits(self.max_pan_speed, self.max_tilt_speed, self.max_zoom_speed)
            = IF HasAllRanges(camera.cfg_opts)
              THEN Limits(Reported.pan, Reported.tilt, Reported.zoom)
              ELSE DefaultLimits

-----------------------------------------------------------------------------
(* C6: _normalized_speed clamps and scales.                                *)

\* v * limit inside [-1, 1], limit above it, -limit below it (v and limit in
\* tenths, the result in hundredths)
ClampedTimes(v, limit) ==
    IF v > 10 THEN 10 * limit ELSE IF v < -10 THEN -(10 * limit) ELSE v * limit

\* C6: every call _normalized_speed(v, limit) returns v * limit when
\* -1 <= v <= 1, limit when v > 1 and -limit when v < -1; it never raises.
C6_NormalizedSpeedClamps ==
    (ret.kind # "none" /\ ret.stmt.op = "_normalized_speed") =>
        /\ ret.kind = "returned"
        /\ ret.value = ClampedTimes(ret.stmt.v, ret.stmt.max_speed)

\* _normalized_speed(-5.0, 0.5) has returned -0.5
C6_Witness ==
    /\ ret.kind = "returned"
    /\ ret.stmt = CallNormalizedSpeed(-50, DefaultSpeed)
    /\ ret.value = -50

-----------------------------------------------------------------------------
(* C7: continuous_move sends one request, each axis scaled by its limit.   *)

\* C7: every call continuous_move(pan, tilt, zoom) is followed by exactly
\* one request, a ContinuousMove whose velocity is (clamp(pan) *
\* max_pan_speed, clamp(tilt) * max_tilt_speed, clamp(zoom) *
\* max_zoom_speed); with limits (0.7, 0.6, 0.4), continuous_move(1.0, -0.5,
\* 0.0) requests (0.7, -0.3, 0.0).
C7_ContinuousMoveVelocity ==
    \A i \in DOMAIN trace :
        (trace[i].ev = "call" /\ trace[i].stmt.op = "continuous_move") =>
            LET c == trace[i].stmt
            IN  /\ i + 1 \in DOMAIN trace
                /\ Sent(i + 1, "ContinuousMove")
                /\ trace[i + 1].req.Velocity =
                      [ PanTilt |-> [ x |-> ClampedTimes(c.pan, self.max_pan_speed),
                                      y |-> ClampedTimes(c.tilt, self.max_tilt_speed) ],
                        Zoom    |-> [ x |-> ClampedTimes(c.zoom, self.max_zoom_speed) ] ]
                /\ (i + 2 \in DOMAIN trace => trace[i + 2].ev # "request")
                /\ ( /\ c = CallMove(10, -5, 0)
                     /\ Limits(self.max_pan_speed, self.max_tilt_speed, self.max_zoom_speed)
                            = Limits(7, 6, 4) )
                     => trace[i + 1].req.Velocity
                            = [PanTilt |-> [x |-> 70, y |-> -30], Zoom |-> [x |-> 0]]

\* with limits (0.7, 0.6, 0.4), continuous_move(1.0, -0.5, 0.0) was called
\* and its request was sent
C7_Witness ==
    /\ self.constructed
    /\ Limits(self.max_pan_speed, self.max_tilt_speed, self.max_zoom_speed) = Limits(7, 6, 4)
    /\ \E i \in DOMAIN trace :
          /\ trace[i] = Called(CallMove(10, -5, 0))
          /\ i + 1 \in DOMAIN trace
          /\ Sent(i + 1, "ContinuousMove")

-----------------------------------------------------------------------------
(* C8: set_preset and a response with no token.                            *)

\* C8: when the camera accepts SetPreset and its response is None, has no
\* PresetToken field or has a PresetToken that is None, set_preset returns
\* the empty string and gives its warning.
C8_MissingTokenSignalled ==
    \A i \in DOMAIN trace :
        ( /\ Sent(i, "SetPreset") /\ trace[i].ok
          /\ trace[i].resp.shape \in {"none", "no_field", "field_none"}
          /\ \A j \in (i + 1)..Len(trace) : trace[j].ev # "call" ) =>
            /\ ret.kind = "returned"
            /\ ret.value = Str(<<>>)
            /\ i + 1 \in DOMAIN trace
            /\ trace[i + 1].ev = "print"

-----------------------------------------------------------------------------
(* C9: no retry, no swallowed failure, failures tagged with the operation. *)

ControllerOperations == {"continuous_move", "stop", "go_to_preset", "set_preset", "list_presets"}

\* C9: every call of a controller operation is followed by exactly one
\* request, and when that request failed the call raised an exception that
\* names the operation.
C9_FailureRaisedTaggedNoRetry ==
    \A i \in DOMAIN trace :
        (trace[i].ev = "call" /\ trace[i].stmt.op \in ControllerOperations) =>
            /\ i + 1 \in DOMAIN trace
            /\ trace[i + 1].ev = "request"
            /\ (i + 2 \in DOMAIN trace => trace[i + 2].ev # "request")
            /\ (i + 1 = Len(trace) /\ ~trace[i + 1].ok) =>
                  /\ ret.kind = "raised"
                  /\ ret.stmt = trace[i].stmt
                  /\ "operation" \in DOMAIN ret.exc
                  /\ ret.exc.operation = trace[i].stmt.op

-----------------------------------------------------------------------------
(* C10: bursts never overlap.                                              *)

\* C10: between a ContinuousMove request and anything that follows it and is
\* another ContinuousMove, a GotoPreset or a SetPreset request or an input
\* read, a Stop request was sent.
C10_BurstsNeverOverlap ==
    \A i \in DOMAIN trace :
        Sent(i, "ContinuousMove") =>
            \A j \in (i + 1)..Len(trace) :
                ( \/ Sent(j, "ContinuousMove") \/ Sent(j, "GotoPreset") \/ Sent(j, "SetPreset")
                  \/ trace[j].ev = "input" ) =>
                    \E k \in (i + 1)..(j - 1) : Sent(k, "Stop")

\* two bursts in a row, each accepted, waited for and stopped
C10_Witness ==
    \E i, j \in DOMAIN trace :
        /\ i < j
        /\ Sent(i, "ContinuousMove") /\ trace[i].ok
        /\ Sent(j, "ContinuousMove") /\ trace[j].ok
        /\ Idle
        /\ Cardinality({k \in DOMAIN trace : trace[k] = Slept(TRUE)}) = 2

-----------------------------------------------------------------------------
(* C11: the velocity limits are immutable after construction.              *)

\* C11: once __init__ has returned a controller, no step (no call of
\* continuous_move, stop, go_to_preset, set_preset or list_presets, accepted
\* or refused by the camera) changes max_pan_speed, max_tilt_speed or
\* max_zoom_speed.
C11_LimitsImmutable ==
    [][ self.constructed =>
          /\ self'.constructed
          /\ self'.max_pan_speed = self.max_pan_speed
          /\ self'.max_tilt_speed = self.max_tilt_speed
          /\ self'.max_zoom_speed = self.max_zoom_speed ]_vars

\* a controller with the limits (0.7, 0.6, 0.4) after an accepted
\* continuous_move and a refused second call
C11_Witness ==
    /\ self.constructed
    /\ Limits(self.max_pan_speed, self.max_tilt_speed, self.max_zoom_speed)
           = Limits(Reported.pan, Reported.tilt, Reported.zoom)
    /\ \E i, j \in DOMAIN trace :
          /\ i < j
          /\ Sent(i, "ContinuousMove") /\ trace[i].ok
          /\ trace[j].ev = "request" /\ trace[j].name \in CommandRequests /\ ~trace[j].ok

-----------------------------------------------------------------------------
(* C12: stop() is safe with no motion in progress.                         *)

\* C12: every call stop(pan_tilt, zoom), whether the camera moves or not,
\* sends exactly one Stop request carrying those flags; when the camera
\* accepts it, the call returns None, the flagged axis groups are at rest and
\* the others keep their velocity; and a stop() that directly follows an
\* accepted stop() with the same flags leaves the camera's motion as that
\* first call left it.
C12_StopSafeWithoutMotion ==
    [][ Executing("stop") =>
          LET s == Head(todo)
              n == Len(trace)
          IN  /\ Len(trace') = n + 2
              /\ trace'[n + 1] = Called(s)
              /\ IsRequest(trace'[n + 2], "Stop")
              /\ trace'[n + 2].req.PanTilt = s.pan_tilt
              /\ trace'[n + 2].req.Zoom = s.zoom
              /\ trace'[n + 2].ok =>
                    /\ ret' = [stmt |-> s, kind |-> "returned", value |-> None]
                    /\ camera'.velocity.PanTilt
                          = IF s.pan_tilt THEN [x |-> 0, y |-> 0] ELSE camera.velocity.PanTilt
                    /\ camera'.velocity.Zoom
                          = IF s.zoom THEN [x |-> 0] ELSE camera.velocity.Zoom
                    /\ ( /\ n > 0
                         /\ IsRequest(trace[n], "Stop") /\ trace[n].ok
                         /\ trace[n].req.PanTilt = s.pan_tilt
                         /\ trace[n].req.Zoom = s.zoom )
                         => camera'.velocity = camera.velocity ]_vars

\* no move was ever requested, and stop() was called twice in a row: each
\* call sent its Stop request, the camera accepted both, the second call
\* returned None and the camera is at rest
C12_Witness ==
    LET n == Len(trace)
    IN  /\ n >= 4
        /\ \A i \in DOMAIN trace : ~Sent(i, "ContinuousMove")
        /\ trace[n - 3] = Called(CallStop(TRUE, TRUE))
        /\ Sent(n - 2, "Stop") /\ trace[n - 2].ok
        /\ trace[n - 1] = Called(CallStop(TRUE, TRUE))
        /\ Sent(n, "Stop") /\ trace[n].ok
        /\ ret = [stmt |-> CallStop(TRUE, TRUE), kind |-> "returned", value |-> None]
        /\ camera.velocity = Still

-----------------------------------------------------------------------------
(* C13: an empty preset list is a normal result.                           *)

\* C13: when the camera answers GetPresets with no preset, list_presets
\* returns the empty sequence, the shell's list command prints "No presets
\* found." next, and after that the shell waits for its next command.
C13_EmptyPresetListIsNormal ==
    \A i \in DOMAIN trace :
        (Sent(i, "GetPresets") /\ trace[i].ok /\ trace[i].resp.presets = <<>>) =>
            /\ i = Len(trace) =>
                  /\ ret = [stmt |-> CallListPresets, kind |-> "returned", value |-> <<>>]
                  /\ status = "running"
            /\ i < Len(trace) => trace[i + 1] = Printed("No presets found.")
            /\ i + 1 = Len(trace) => Idle

\* the list command on a camera with no preset printed "No presets found."
\* and the shell then read its next command
C13_Witness ==
    \E i \in DOMAIN trace :
        /\ Sent(i, "GetPresets") /\ trace[i].ok /\ trace[i].resp.presets = <<>>
        /\ i + 2 \in DOMAIN trace
        /\ trace[i + 1] = Printed("No presets found.")
        /\ IsCommand(i + 2)
        /\ trace[i + 2].exc = None

-----------------------------------------------------------------------------
(* C14: presets are never cached.                                          *)

\* the presets the camera holds after the first i events: one for every
\* SetPreset request it accepted, in order
RECURSIVE SavedUpTo(_)
SavedUpTo(i) ==
    IF i = 0 THEN <<>>
    ELSE LET before == SavedUpTo(i - 1)
         IN  IF Sent(i, "SetPreset") /\ trace[i].ok
             THEN Append(before, [ token |-> token_of(Len(before) + 1),
                                   Name  |-> trace[i].req.PresetName ])
             ELSE before

\* C14: every call of list_presets sends a GetPresets request of its own,
\* and when the camera accepts it the call returns the presets the camera
\* holds at that moment: one for every SetPreset request accepted before it.
C14_PresetsNeverCached ==
    \A i \in DOMAIN trace :
        trace[i] = Called(CallListPresets) =>
            /\ i + 1 \in DOMAIN trace
            /\ Sent(i + 1, "GetPresets")
            /\ trace[i + 1].ok =>
                  /\ trace[i + 1].resp.presets = SavedUpTo(i)
                  /\ i + 1 = Len(trace) =>
                        ret = [stmt |-> CallListPresets, kind |-> "returned", value |-> SavedUpTo(i)]

\* list_presets returned no preset, set_preset("a") was accepted, and
\* list_presets then returned the one preset named "a"
C14_Witness ==
    \E i, j, k \in DOMAIN trace :
        /\ i < j /\ j < k /\ k = Len(trace)
        /\ Sent(i, "GetPresets") /\ trace[i].ok /\ trace[i].resp.presets = <<>>
        /\ Sent(j, "SetPreset") /\ trace[j].ok /\ trace[j].req.PresetName = <<"a">>
        /\ Sent(k, "GetPresets") /\ trace[k].ok
        /\ ret = [ stmt |-> CallListPresets, kind |-> "returned",
                   value |-> <<[token |-> token_of(1), Name |-> <<"a">>]>> ]

-----------------------------------------------------------------------------
(* C15: no stale state in the reused request objects.                      *)

\* the request a call of a controller operation has to send, built from that
\* call's arguments, the limits and the profile token alone
ExpectedRequest(c) ==
    LET token == camera.profiles[1].token
    IN  CASE c.op = "stop" ->
               [ProfileToken |-> token, PanTilt |-> c.pan_tilt, Zoom |-> c.zoom]
          [] c.op = "continuous_move" ->
               [ ProfileToken |-> token,
                 Velocity |-> [ PanTilt |-> [ x |-> ClampedTimes(c.pan, self.max_pan_speed),
                                              y |-> ClampedTimes(c.tilt, self.max_tilt_speed) ],
                                Zoom    |-> [ x |-> ClampedTimes(c.zoom, self.max_zoom_speed) ] ] ]
          [] c.op = "go_to_preset" -> [ProfileToken |-> token, PresetToken |-> c.preset_token]
          [] c.op = "set_preset" -> [ProfileToken |-> token, PresetName |-> c.name]
          [] c.op = "list_presets" -> [ProfileToken |-> token]

\* C15: the request sent by every call of stop, continuous_move,
\* go_to_preset, set_preset and list_presets is the one built from that
\* call's own arguments: a Stop carries exactly the call's two flags, a
\* ContinuousMove the velocity of the call's three values, and every request
\* and every stored request object the token of the profile chosen by
\* __init__, whatever was called before.
C15_NoStaleRequestState ==
    /\ \A i \in DOMAIN trace :
          (trace[i].ev = "call" /\ trace[i].stmt.op \in ControllerOperations) =>
              /\ i + 1 \in DOMAIN trace
              /\ trace[i + 1].ev = "request"
              /\ trace[i + 1].req = ExpectedRequest(trace[i].stmt)
    /\ self.constructed =>
          /\ self.request_continuous.ProfileToken = camera.profiles[1].token
          /\ self.request_stop.ProfileToken = camera.profiles[1].token
          /\ self.request_gotopreset.ProfileToken = camera.profiles[1].token
          /\ self.request_setpreset.ProfileToken = camera.profiles[1].token

\* stop(pan_tilt=False) stopped the zoom only, and the stop() that followed
\* sent PanTilt=true and Zoom=true
C15_Witness ==
    LET n == Len(trace)
    IN  /\ n >= 4
        /\ trace[n - 3] = Called(CallStop(FALSE, TRUE))
        /\ Sent(n - 2, "Stop") /\ trace[n - 2].ok
        /\ trace[n - 2].req.PanTilt = FALSE /\ trace[n - 2].req.Zoom = TRUE
        /\ trace[n - 1] = Called(CallStop(TRUE, TRUE))
        /\ Sent(n, "Stop") /\ trace[n].ok
        /\ trace[n].req.PanTilt = TRUE /\ trace[n].req.Zoom = TRUE

-----------------------------------------------------------------------------
(* C16: the Stop that ends a burst covers the axis groups the burst moved. *)

MovesPanTilt(v) == v.PanTilt # [x |-> 0, y |-> 0]
MovesZoom(v) == v.Zoom # [x |-> 0]

\* C16: in both shells a burst moves one axis group; every Stop request
\* that follows a ContinuousMove request within the same command has the
\* flag of each group the move gave a non-zero velocity; and when the wait
\* ran to its end the request that follows is Stop(PanTilt=true, Zoom=true)
\* after a pan or tilt move and Stop(PanTilt=false, Zoom=true) after a zoom
\* move.
C16_StopCoversMovedAxes ==
    \A i \in DOMAIN trace :
        Sent(i, "ContinuousMove") =>
            LET v == trace[i].req.Velocity
            IN  /\ MovesPanTilt(v) # MovesZoom(v)
                /\ \A j \in StopsIn(RestOfCommand(i)) :
                      /\ MovesPanTilt(v) => trace[j].req.PanTilt
                      /\ MovesZoom(v) => trace[j].req.Zoom
                /\ (i + 3 \in DOMAIN trace /\ trace[i + 1] = Slept(TRUE)) =>
                      /\ trace[i + 2].ev = "call"
                      /\ Sent(i + 3, "Stop")
                      /\ trace[i + 3].req.PanTilt = MovesPanTilt(v)
                      /\ trace[i + 3].req.Zoom = TRUE

\* a zoom burst was ended by Stop(PanTilt=false, Zoom=true) and, after it, a
\* pan or tilt burst by Stop(PanTilt=true, Zoom=true)
C16_Witness ==
    \E i, j \in DOMAIN trace :
        /\ i < j
        /\ j + 3 \in DOMAIN trace
        /\ Sent(i, "ContinuousMove") /\ trace[i].ok /\ MovesZoom(trace[i].req.Velocity)
        /\ trace[i + 1] = Slept(TRUE)
        /\ Sent(i + 3, "Stop") /\ trace[i + 3].ok
        /\ ~trace[i + 3].req.PanTilt /\ trace[i + 3].req.Zoom
        /\ Sent(j, "ContinuousMove") /\ trace[j].ok /\ MovesPanTilt(trace[j].req.Velocity)
        /\ trace[j + 1] = Slept(TRUE)
        /\ Sent(j + 3, "Stop") /\ trace[j + 3].ok
        /\ trace[j + 3].req.PanTilt /\ trace[j + 3].req.Zoom

-----------------------------------------------------------------------------
(* C17: a shell ended at its input point ends with a full Stop.            *)

\* the input with which the operator ends the shell at its input point:
\* menu choice 0, EOF or Ctrl-C at the menu of run_cli; ESC, or Ctrl-C while
\* run_keyboard polls for a key
EndsShell(e) ==
    \/ e.exc # None
    \/ file = "ptz_controller" /\ strip(e.value) = <<"0">>
    \/ file = "ptz_control_with_keyboard" /\ e.value = <<"ESC">>

LastOf(S) == CHOOSE i \in S : \A j \in S : j <= i

Requests == {i \in DOMAIN trace : trace[i].ev = "request"}

\* C17: when the program has ended and the last command read was one that
\* ends the shell, the last request sent to the camera was sent after that
\* input and is a Stop with PanTilt=true and Zoom=true.
C17_ShellEndsWithFullStop ==
    (Ended /\ Commands # {} /\ EndsShell(trace[LastOf(Commands)])) =>
        LET r == LastOf(Requests)
        IN  /\ r > LastOf(Commands)
            /\ Sent(r, "Stop")
            /\ trace[r].req.PanTilt = TRUE
            /\ trace[r].req.Zoom = TRUE

\* after a zoom burst ended by Stop(PanTilt=false, Zoom=true) the operator
\* ended the shell, and the program has exited
C17_Witness ==
    /\ status = "exited"
    /\ Commands # {}
    /\ EndsShell(trace[LastOf(Commands)])
    /\ \E i \in DOMAIN trace :
          /\ i < LastOf(Commands)
          /\ Sent(i, "Stop") /\ trace[i].ok /\ ~trace[i].req.PanTilt
    /\ Sent(LastOf(Requests), "Stop")
    /\ trace[LastOf(Requests)].ok

-----------------------------------------------------------------------------
(* C18: go-to-preset sends a request only for a non-empty token.           *)

\* command c is the go-to-preset command: choice 9 of run_cli, key g of
\* run_keyboard
IsGoToPresetCommand(c) ==
    /\ IsCommand(c)
    /\ trace[c].exc = None
    /\ \/ file = "ptz_controller" /\ strip(trace[c].value) = <<"9">>
       \/ file = "ptz_control_with_keyboard" /\ trace[c].value = <<"g">>

\* the answers read at the token prompt of a go-to-preset command
TokenAnswers ==
    {i \in DOMAIN trace :
        /\ trace[i].ev = "input" /\ trace[i].at = "prompt" /\ trace[i].exc = None
        /\ IsGoToPresetCommand(LastOf({c \in Commands : c < i}))}

\* C18: after the operator answered the token prompt of a go-to-preset
\* command, an empty or all-blank answer is followed by no request at all
\* within that command and the shell waits for its next command; any other
\* answer is followed by exactly one GotoPreset request, whose PresetToken
\* is the answer without its surrounding blanks.
C18_GotoPresetOnlyForToken ==
    \A i \in TokenAnswers :
        LET c     == LastOf({k \in Commands : k < i})
            token == strip(trace[i].value)
            gotos == {j \in RestOfCommand(c) : Sent(j, "GotoPreset")}
        IN  IF token = <<>>
            THEN /\ \A j \in RestOfCommand(c) : j > i => trace[j].ev = "print"
                 /\ (\A j \in (i + 1)..Len(trace) : ~IsCommand(j)) => Idle
            ELSE /\ Cardinality(gotos) <= 1
                 /\ \A j \in gotos : j = i + 2 /\ trace[j].req.PresetToken = token
                 /\ IF Len(trace) = i
                    THEN todo # <<>> /\ Head(todo) = CallGoToPreset(token)
                    ELSE i + 2 \in gotos /\ trace[i + 1] = Called(CallGoToPreset(token))

\* the answer " 1 " was followed by one GotoPreset request for token "1",
\* and in a later go-to-preset command a blank answer by none: the shell
\* waits for its next command
C18_Witness ==
    \E i, j \in TokenAnswers :
        /\ i < j
        /\ trace[i].value = <<" ", "1", " ">>
        /\ Sent(i + 2, "GotoPreset") /\ trace[i + 2].ok
        /\ trace[i + 2].req.PresetToken = <<"1">>
        /\ trace[j].value = <<" ">>
        /\ Cardinality({k \in DOMAIN trace : Sent(k, "GotoPreset")}) = 1
        /\ Idle

-----------------------------------------------------------------------------
(* C19: no media profile, no controller.                                   *)

PTZRequests == {"GetConfigurationOptions"} \cup CommandRequests

\* C19: on a camera that reports no media profile, __init__ raises its
\* RuntimeError, no controller exists afterwards, nothing is left to run,
\* and no GetConfigurationOptions, ContinuousMove, Stop, GotoPreset,
\* SetPreset or GetPresets request was ever sent.
C19_NoProfilesNoController ==
    (camera.profiles = <<>> /\ status # "new") =>
        /\ status = "raised"
        /\ ~self.constructed
        /\ todo = <<>>
        /\ ret = [stmt |-> Construct, kind |-> "raised", exc |-> NoProfilesError]
        /\ \A i \in DOMAIN trace :
              trace[i].ev = "request" => trace[i].name \notin PTZRequests

\* __init__ has asked a camera with no media profile for its profiles and
\* has raised
C19_Witness ==
    /\ camera.profiles = <<>>
    /\ status = "raised"
    /\ trace = <<Request("GetProfiles", None, TRUE, [profiles |-> <<>>])>>

-----------------------------------------------------------------------------
(* C20: an input bound to no command does nothing.                         *)

\* the menu choices run_cli has a branch for
BoundChoices ==
    { <<"0">>, <<"1">>, <<"2">>, <<"3">>, <<"4">>, <<"5">>, <<"6">>, <<"7">>, <<"8">>, <<"9">>,
      <<"1", "0">> }

\* the keys (after lower()) and the extended-key codes run_keyboard has a
\* branch for
BoundKeys == {"ESC", "w", "s", "a", "d", "q", "e", " ", "p", "g", "o"}
BoundExtended == {"H", "P", "K", "M"}

\* command c was read and is bound to nothing
IsUnboundCommand(c) ==
    /\ IsCommand(c)
    /\ trace[c].exc = None
    /\ IF file = "ptz_controller"
       THEN strip(trace[c].value) \notin BoundChoices
       ELSE IF Len(trace[c].value) = 2
            THEN trace[c].value[2] \notin BoundExtended
            ELSE decode_lower(trace[c].value[1]) \notin BoundKeys

\* C20: after an unrecognised menu choice of run_cli, or an unbound key or
\* unbound extended-key code of run_keyboard, nothing but a message follows
\* until the next command is read: no controller method is called, no
\* request is sent, and the shell waits for its next command.
C20_UnboundInputDoesNothing ==
    \A c \in DOMAIN trace :
        IsUnboundCommand(c) =>
            /\ \A j \in RestOfCommand(c) : trace[j].ev = "print"
            /\ (\A j \in (c + 1)..Len(trace) : ~IsCommand(j)) => Idle

\* run_keyboard read the unbound Home key, sent nothing, read the next key
\* and sent that key's request
C20_Witness ==
    \E c \in DOMAIN trace :
        /\ IsUnboundCommand(c)
        /\ trace[c].value = <<"E0", "G">>
        /\ c + 3 \in DOMAIN trace
        /\ IsCommand(c + 1)
        /\ trace[c + 3].ev = "request"

====
